---- MODULE Spec2Model ----
(***************************************************************************)
(* The zookeeper input of categraf (inputs/zookeeper/zookeeper.go): the    *)
(* Gather fan-out over instances and hosts, the per-host task gatherOnce,  *)
(* the command transport sendZookeeperCmd and the two reply parsers.       *)
(*                                                                         *)
(* A Go string is a sequence of one-character strings, so that Split,      *)
(* Fields, Contains, the replacer and the regular expressions are computed *)
(* character by character as the library computes them.                    *)
(***************************************************************************)
EXTENDS Integers, Sequences, FiniteSets, Bags, TLC

VARIABLES
    Instances,  \* z.Instances: the configured instances (read-only after construction)
    Counter,    \* z.Counter
    wg,         \* z.wg: the WaitGroup counter
    gpc,        \* Gather's position: "idle", "loop", "wait", "returned"
    gi,         \* Gather's instance index i
    gh,         \* Gather's index into zkHosts
    tasks,      \* the gatherOnce goroutines spawned by the running cycle
    slist,      \* the SafeList handed to Gather: its elements, as a bag
    logs,       \* the lines written through package log, as a bag
    dead,       \* the process has died of an unrecovered panic
    probe       \* the parser harness: one reply handed to one parser

vars == <<Instances, Counter, wg, gpc, gi, gh, tasks, slist, logs, dead, probe>>

-----------------------------------------------------------------------------
(* Bounds of the model. *)

\* Largest number of lines in a reply handed to the parser harness.
MaxLines == 2

\* Largest number of hosts in a configuration, over all its instances.
MaxHosts == 2

-----------------------------------------------------------------------------
(* Constants of the program. *)

instanceNotServingMessage ==
    <<"T", "h", "i", "s", " ", "Z", "o", "o", "K", "e", "e", "p", "e", "r", " ",
      "i", "n", "s", "t", "a", "n", "c", "e", " ", "i", "s", " ", "n", "o", "t", " ",
      "c", "u", "r", "r", "e", "n", "t", "l", "y", " ", "s", "e", "r", "v", "i", "n",
      "g", " ", "r", "e", "q", "u", "e", "s", "t", "s">>

cmdNotExecutedSffx ==
    <<"i", "s", " ", "n", "o", "t", " ", "e", "x", "e", "c", "u", "t", "e", "d", " ",
      "b", "e", "c", "a", "u", "s", "e", " ", "i", "t", " ", "i", "s", " ", "n", "o",
      "t", " ", "i", "n", " ", "t", "h", "e", " ", "w", "h", "i", "t", "e", "l", "i",
      "s", "t", ".">>

zk_host == <<"z", "k", "_", "h", "o", "s", "t">>
zk_cluster == <<"z", "k", "_", "c", "l", "u", "s", "t", "e", "r">>
zk_up == <<"z", "k", "_", "u", "p">>
zk_ruok == <<"z", "k", "_", "r", "u", "o", "k">>
zk_scrape_use_seconds ==
    <<"z", "k", "_", "s", "c", "r", "a", "p", "e", "_", "u", "s", "e", "_",
      "s", "e", "c", "o", "n", "d", "s">>
zk_server_leader ==
    <<"z", "k", "_", "s", "e", "r", "v", "e", "r", "_", "l", "e", "a", "d", "e", "r">>
zk_server_state ==
    <<"z", "k", "_", "s", "e", "r", "v", "e", "r", "_", "s", "t", "a", "t", "e">>
zk_version == <<"z", "k", "_", "v", "e", "r", "s", "i", "o", "n">>
zk_peer_state == <<"z", "k", "_", "p", "e", "e", "r", "_", "s", "t", "a", "t", "e">>
versionKey == <<"v", "e", "r", "s", "i", "o", "n">>
stateKey == <<"s", "t", "a", "t", "e">>
leader == <<"l", "e", "a", "d", "e", "r">>
imok == <<"i", "m", "o", "k">>
mntr == <<"m", "n", "t", "r">>
ruok == <<"r", "u", "o", "k">>

-----------------------------------------------------------------------------
(* The string library, as package strings computes it. *)

Min(S) == CHOOSE x \in S : \A y \in S : x <= y
Max(S) == CHOOSE x \in S : \A y \in S : x >= y

\* strings.Contains(s, substr)
Contains(s, substr) ==
    \E i \in 0..(Len(s) - Len(substr)) : SubSeq(s, i + 1, i + Len(substr)) = substr

\* strings.Split(s, sep) for a one-character separator: never empty.
RECURSIVE Split(_, _)
Split(s, sep) ==
    LET idx == {i \in 1..Len(s) : s[i] = sep}
    IN  IF idx = {} THEN <<s>>
        ELSE <<SubSeq(s, 1, Min(idx) - 1)>> \o Split(SubSeq(s, Min(idx) + 1, Len(s)), sep)

\* unicode.IsSpace on the ASCII range
IsSpace(c) == c \in {" ", "\t", "\n", "\r", "\f"}

\* strings.Fields(s): the maximal runs of non-space characters.
RECURSIVE Fields(_)
Fields(s) ==
    IF s = <<>> THEN <<>>
    ELSE IF IsSpace(s[1]) THEN Fields(Tail(s))
    ELSE LET sp == {i \in 1..Len(s) : IsSpace(s[i])}
             n  == IF sp = {} THEN Len(s) + 1 ELSE Min(sp)
         IN  <<SubSeq(s, 1, n - 1)>> \o Fields(SubSeq(s, n, Len(s)))

\* metricNameReplacer = strings.NewReplacer("-", "_", ".", "_")
metricNameReplacer(s) ==
    [i \in 1..Len(s) |-> IF s[i] \in {"-", "."} THEN "_" ELSE s[i]]

\* Concatenation of the lines with "\n" between them (the peer's side of Split).
RECURSIVE Join(_)
Join(ls) ==
    IF ls = <<>> THEN <<>>
    ELSE IF Len(ls) = 1 THEN ls[1]
    ELSE ls[1] \o <<"\n">> \o Join(Tail(ls))

-----------------------------------------------------------------------------
(* strconv, as isDigit uses it. *)

Digits == {"0", "1", "2", "3", "4", "5", "6", "7", "8", "9"}
HexDigits == Digits \cup {"a", "b", "c", "d", "e", "f", "A", "B", "C", "D", "E", "F"}

\* lower(c) for the letters strconv compares against.
Lower(c) ==
    CASE c = "I" -> "i" [] c = "N" -> "n" [] c = "F" -> "f" [] c = "T" -> "t"
      [] c = "Y" -> "y" [] c = "A" -> "a" [] c = "E" -> "e" [] c = "X" -> "x"
      [] c = "P" -> "p" [] OTHER -> c

LowerStr(s) == [i \in 1..Len(s) |-> Lower(s[i])]

AllIn(s, S) == \A i \in 1..Len(s) : s[i] \in S

StripSign(s) == IF s # <<>> /\ s[1] \in {"+", "-"} THEN Tail(s) ELSE s

\* strconv.Atoi(in) returns no error: an optional sign and decimal digits that
\* fit an int (19 digits at most; the inputs of the model stay far below).
AtoiOk(in) ==
    LET d == StripSign(in)
    IN  d # <<>> /\ AllIn(d, Digits) /\ Len(d) <= 18

\* A mantissa: digits with at most one '.', and at least one digit.
MantissaOk(m, ds) ==
    /\ AllIn(m, ds \cup {"."})
    /\ Cardinality({i \in 1..Len(m) : m[i] = "."}) <= 1
    /\ \E i \in 1..Len(m) : m[i] \in ds

\* An exponent after its letter: an optional sign and at least one digit.
ExponentOk(e) ==
    LET d == StripSign(e) IN d # <<>> /\ AllIn(d, Digits)

\* strconv.ParseFloat(in, 64) returns no error: special() for the named values,
\* readFloat for decimal and hexadecimal floats.
ParseFloatOk(in) ==
    LET u  == StripSign(in)
        lu == LowerStr(u)
        special ==
            \/ lu \in {<<"i", "n", "f">>, <<"i", "n", "f", "i", "n", "i", "t", "y">>}
            \/ LowerStr(in) = <<"n", "a", "n">>
        hex == Len(lu) >= 2 /\ lu[1] = "0" /\ lu[2] = "x"
        body == IF hex THEN SubSeq(u, 3, Len(u)) ELSE u
        expChar == IF hex THEN "p" ELSE "e"
        ds == IF hex THEN HexDigits ELSE Digits
        \* the mantissa ends at the first character that is no digit and no '.'
        stop == {i \in 1..Len(body) : body[i] \notin ds \cup {"."}}
        cut == IF stop = {} THEN Len(body) + 1 ELSE Min(stop)
        mant == SubSeq(body, 1, cut - 1)
        rest == SubSeq(body, cut, Len(body))
        float ==
            /\ MantissaOk(mant, ds)
            /\ IF rest = <<>> THEN ~hex
               ELSE Lower(rest[1]) = expChar /\ ExponentOk(Tail(rest))
    IN  in # <<>> /\ (special \/ float)

\* isDigit(in)
isDigit(in) == IF ~AtoiOk(in) THEN ParseFloatOk(in) ELSE TRUE

-----------------------------------------------------------------------------
(* The regular expressions. *)

\* The length of the longest prefix of s made of decimal digits.
DigitRun(s) ==
    LET stop == {i \in 1..Len(s) : s[i] \notin Digits}
    IN  IF stop = {} THEN Len(s) ELSE Min(stop) - 1

\* The version tag as the value itself, without the regular expression.
versionRE_Identity(value) == value

\* versionRE.ReplaceAllString(value, "$1") with
\* versionRE = `^([0-9]+\.[0-9]+\.[0-9]+).*$`: the dotted triplet the value
\* starts with, and the value itself when it starts with none.
versionRE(value) ==
    LET a  == DigitRun(value)
        r1 == SubSeq(value, a + 2, Len(value))
        b  == DigitRun(r1)
        r2 == SubSeq(r1, b + 2, Len(r1))
        c  == DigitRun(r2)
        ok == /\ a >= 1 /\ Len(value) >= a + 1 /\ value[a + 1] = "."
              /\ b >= 1 /\ Len(r1) >= b + 1 /\ r1[b + 1] = "."
              /\ c >= 1
              /\ "\n" \notin {value[i] : i \in 1..Len(value)}
    IN  IF ok THEN SubSeq(value, 1, a + 1 + b + 1 + c) ELSE value

\* labelsRE.FindStringSubmatch(in)[1] with labelsRE = `{(.*)}`: the text
\* between the first '{' and the last '}'; <<>> wrapped in a record when there
\* is no match.
labelsRE(in) ==
    LET open  == {i \in 1..Len(in) : in[i] = "{"}
        close == {i \in 1..Len(in) : in[i] = "}"}
    IN  IF open # {} /\ close # {} /\ Max(close) > Min(open)
        THEN [match |-> TRUE, sub |-> SubSeq(in, Min(open) + 1, Max(close) - 1)]
        ELSE [match |-> FALSE, sub |-> <<>>]

\* labelRE.FindStringSubmatch(labelStr) with labelRE = `(.*)\=(\".*\")`: both
\* stars are greedy, so group 1 ends at the last '=' that is followed by a
\* quote and a later quote, and group 2 runs to the last quote of the text.
labelRE(labelStr) ==
    LET q  == {j \in 1..Len(labelStr) : labelStr[j] = "\""}
        eq == {i \in 1..(Len(labelStr) - 2) :
                 /\ labelStr[i] = "="
                 /\ labelStr[i + 1] = "\""
                 /\ \E j \in q : j > i + 1}
    IN  IF eq = {} THEN [match |-> FALSE, key |-> <<>>, value |-> <<>>]
        ELSE [match |-> TRUE,
              key   |-> SubSeq(labelStr, 1, Max(eq) - 1),
              value |-> SubSeq(labelStr, Max(eq) + 1, Max(q))]

\* The map m with k set to v.
MapSet(m, k, v) == [x \in DOMAIN m \cup {k} |-> IF x = k THEN v ELSE m[x]]

\* The map a overlaid with every entry of b.
MapMerge(a, b) == [x \in DOMAIN a \cup DOMAIN b |-> IF x \in DOMAIN b THEN b[x] ELSE a[x]]

RECURSIVE LabelsOf(_, _)
LabelsOf(parts, labels) ==
    IF parts = <<>> THEN labels
    ELSE LET m == labelRE(parts[1])
         IN  LabelsOf(Tail(parts),
                      IF m.match THEN MapSet(labels, m.key, m.value) ELSE labels)

\* parseLabels(in)
parseLabels(in) ==
    LET matchLables == labelsRE(in)
    IN  IF matchLables.match THEN LabelsOf(Split(matchLables.sub, ","), <<>>) ELSE <<>>

-----------------------------------------------------------------------------
(* Measurements and diagnostics. *)

\* The values handed to NewSample are Go ints (0, 1), a float64 (the elapsed
\* seconds) and strings (the text of a stats line's value): a value is kept as
\* its text.
Zero == <<"0">>
One == <<"1">>

\* inputs.NewSample(metric, value, labels...): the measurement (name, value,
\* tags), its tags the label maps overlaid in the order given.
RECURSIVE MergeAll(_)
MergeAll(maps) ==
    IF maps = <<>> THEN <<>>
    ELSE MapMerge(maps[1], MergeAll(Tail(maps)))

NewSample(metric, value, labels) ==
    [name |-> metric, value |-> value,
     tags |-> MergeAll([i \in 1..Len(labels) |-> labels[Len(labels) + 1 - i]])]

\* What one call of a parser does: the samples it pushes (in push order), the
\* lines it logs, and whether it ends in a run-time panic.
Outcome(samples, logged, panic) ==
    [samples |-> samples, logs |-> logged, panic |-> panic]

\* log.Printf(commandNotAllowedTmpl, cmd, conn.RemoteAddr().String())
commandNotAllowedTmpl(cmd, addr) == [kind |-> "commandNotAllowed", cmd |-> cmd, at |-> addr]

\* log.Printf("warning: skipping metric %q which holds not-digit value: %q", key, value)
NotDigitWarning(key, value) == [kind |-> "notDigit", cmd |-> key, at |-> value]

\* The bag of the lines of a sequence of log lines.
RECURSIVE Logged(_)
Logged(ls) ==
    IF ls = <<>> THEN EmptyBag ELSE SetToBag({ls[1]}) (+) Logged(Tail(ls))

\* slist.PushFront(sample). Gather and its tasks only ever push to the list and
\* nothing in the program reads the order of its elements, so the model keeps
\* the elements and how often each occurs.
PushFront(list, sample) == list (+) SetToBag({sample})

\* slist.PushFront of each sample in turn.
RECURSIVE PushFrontAll(_, _)
PushFrontAll(list, samples) ==
    IF samples = <<>> THEN list
    ELSE PushFrontAll(PushFront(list, samples[1]), Tail(samples))

-----------------------------------------------------------------------------
(* The reply parser of the stats summary command. *)

\* The banner test as an equality instead of a substring test.
IsNotExecuted_Equals(line) == line = cmdNotExecutedSffx

\* strings.Contains(lines[0], cmdNotExecutedSffx)
IsNotExecuted(line) == Contains(line, cmdNotExecutedSffx)

\* lines[0] == instanceNotServingMessage
IsNotServing(line) == line = instanceNotServingMessage

\* case "zk_server_state"
ServerStateCase(value, globalTags) ==
    IF value = leader
    THEN NewSample(zk_server_leader, One, <<globalTags>>)
    ELSE NewSample(zk_server_leader, Zero, <<globalTags>>)

\* The default case with a value that is no number ending the parser in a
\* panic instead of a warning.
DefaultCase_Fatal(key, value, globalTags) ==
    IF ~isDigit(value)
    THEN Outcome(<<>>, <<>>, TRUE)
    ELSE LET k == metricNameReplacer(key)
         IN  IF Contains(k, <<"{">>)
             THEN Outcome(<<NewSample(k, value, <<globalTags, parseLabels(k)>>)>>, <<>>, FALSE)
             ELSE Outcome(<<NewSample(k, value, <<globalTags>>)>>, <<>>, FALSE)

\* default: of the switch
DefaultCase(key, value, globalTags) ==
    IF ~isDigit(value)
    THEN Outcome(<<>>, <<NotDigitWarning(key, value)>>, FALSE)
    ELSE LET k == metricNameReplacer(key)
         IN  IF Contains(k, <<"{">>)
             THEN Outcome(<<NewSample(k, value, <<globalTags, parseLabels(k)>>)>>, <<>>, FALSE)
             ELSE Outcome(<<NewSample(k, value, <<globalTags>>)>>, <<>>, FALSE)

\* The body of the loop for one non-empty line l: kv[0] and kv[1] are read
\* without a length check, so a line of fewer than two fields panics (index
\* out of range).
ParseLine(l, globalTags) ==
    LET kv == Fields(l)
    IN  IF Len(kv) < 2 THEN Outcome(<<>>, <<>>, TRUE)
        ELSE LET key == kv[1]
                 value == kv[2]
             IN  CASE key = zk_server_state ->
                        Outcome(<<ServerStateCase(value, globalTags)>>, <<>>, FALSE)
                   [] key = zk_version ->
                        Outcome(<<NewSample(zk_version, One,
                                    <<globalTags, (versionKey :> versionRE(value))>>)>>,
                                <<>>, FALSE)
                   [] key = zk_peer_state ->
                        Outcome(<<NewSample(zk_peer_state, One,
                                    <<globalTags, (stateKey :> value)>>)>>,
                                <<>>, FALSE)
                   [] OTHER -> DefaultCase(key, value, globalTags)

\* for _, l := range lines, from line i on: empty lines are skipped, and a
\* panic ends the loop.
RECURSIVE ParseLines(_, _, _)
ParseLines(lines, i, globalTags) ==
    IF i > Len(lines) THEN Outcome(<<>>, <<>>, FALSE)
    ELSE IF lines[i] = <<>> THEN ParseLines(lines, i + 1, globalTags)
    ELSE LET r == ParseLine(lines[i], globalTags)
         IN  IF r.panic THEN r
             ELSE LET rest == ParseLines(lines, i + 1, globalTags)
                  IN  Outcome(r.samples \o rest.samples, r.logs \o rest.logs, rest.panic)

\* gatherMntrResult without the return that follows the push of
\* zk_server_leader for an instance that is not serving: the loop over the
\* lines runs as well.
gatherMntrResult_NoReturn(res, addr, globalTags) ==
    LET lines == Split(res, "\n")
        r == ParseLines(lines, 1, globalTags)
    IN  IF IsNotExecuted(lines[1])
        THEN Outcome(<<NewSample(zk_up, Zero, <<globalTags>>)>>,
                     <<commandNotAllowedTmpl(mntr, addr)>>, FALSE)
        ELSE IF IsNotServing(lines[1])
        THEN Outcome(<<NewSample(zk_up, One, <<globalTags>>),
                       NewSample(zk_server_leader, One, <<globalTags>>)>> \o r.samples,
                     r.logs, r.panic)
        ELSE Outcome(<<NewSample(zk_up, One, <<globalTags>>)>> \o r.samples,
                     r.logs, r.panic)

\* gatherMntrResult after sendZookeeperCmd returned res.
gatherMntrResult(res, addr, globalTags) ==
    LET lines == Split(res, "\n")
    IN  IF IsNotExecuted(lines[1])
        THEN Outcome(<<NewSample(zk_up, Zero, <<globalTags>>)>>,
                     <<commandNotAllowedTmpl(mntr, addr)>>, FALSE)
        ELSE IF IsNotServing(lines[1])
        THEN Outcome(<<NewSample(zk_up, One, <<globalTags>>),
                       NewSample(zk_server_leader, One, <<globalTags>>)>>, <<>>, FALSE)
        ELSE LET r == ParseLines(lines, 1, globalTags)
             IN  Outcome(<<NewSample(zk_up, One, <<globalTags>>)>> \o r.samples,
                         r.logs, r.panic)

-----------------------------------------------------------------------------
(* The reply parser of the liveness command. *)

\* The liveness test as a substring test instead of an equality.
IsImok_Contains(res) == Contains(res, imok)

\* res == "imok"
IsImok(res) == res = imok

\* gatherRuokResult after sendZookeeperCmd returned res.
gatherRuokResult(res, addr, globalTags) ==
    IF IsImok(res)
    THEN Outcome(<<NewSample(zk_ruok, One, <<globalTags>>)>>, <<>>, FALSE)
    ELSE Outcome(<<NewSample(zk_ruok, Zero, <<globalTags>>)>>,
                 IF Contains(res, cmdNotExecutedSffx)
                 THEN <<commandNotAllowedTmpl(ruok, addr)>> ELSE <<>>,
                 FALSE)

-----------------------------------------------------------------------------
(* The parser harness: one reply, handed to one of the two parsers with the  *)
(* tags of a task.                                                          *)

\* The lines replies are made of.
ReplyLines ==
    { <<>>,
      zk_server_state \o <<" ">> \o leader,
      zk_server_state \o <<" ", "f", "o", "l", "l", "o", "w", "e", "r">>,
      zk_server_state,
      zk_version \o <<" ", "3", ".", "5", ".", "2", "-", "b", "e", "t", "a">>,
      zk_version \o <<" ", "3", ".", "5">>,
      zk_version \o <<" ", "v", "1", ".", "2", ".", "3">>,
      zk_peer_state \o <<" ", "f", "o", "l", "l", "o", "w", "i", "n", "g">>,
      <<"z", "k", "_", "a", "v", "g", "-", "l", "a", "t", ".", "m", "s", " ", "0", ".", "5">>,
      <<"z", "k", "_", "n", " ", "1", "2", " ", "x">>,
      <<"z", "k", "_", "f", "o", "o", " ", "b", "a", "r">>,
      <<"g", "a", "r", "b", "a", "g", "e">>,
      <<" ">>,
      <<"f", "o", "o", "{", "b", "a", "r", "=", "\"", "b", "a", "z", "\"", ",",
        "q", "u", "x", "=", "\"", "q", "u", "u", "x", "\"", "}", " ", "5">>,
      instanceNotServingMessage,
      instanceNotServingMessage \o <<" ", "n", "o", "w">>,
      mntr \o <<" ">> \o cmdNotExecutedSffx,
      ruok \o <<" ">> \o cmdNotExecutedSffx,
      imok }

\* Every reply of at most MaxLines lines.
Replies == {Join(ls) : ls \in UNION {[1..n -> ReplyLines] : n \in 0..MaxLines}}

\* The tags and the peer address the harness hands to the parser.
ProbeAddr == <<"h", ":", "1">>
ProbeTags == (zk_host :> ProbeAddr) @@ (zk_cluster :> <<"c">>)

NoProbe == [cmd |-> <<>>, res |-> <<>>, done |-> TRUE]

\* The fan-out is at rest: the harness runs a parser on its own.
AtRest ==
    /\ Instances = <<>> /\ Counter = 0 /\ wg = 0 /\ gpc = "idle"
    /\ gi = 0 /\ gh = 0 /\ tasks = <<>>

InitProbe ==
    /\ AtRest
    /\ slist = EmptyBag /\ logs = EmptyBag /\ dead = FALSE
    /\ probe \in [cmd : {mntr, ruok}, res : Replies, done : {FALSE}]

\* What a parser did is delivered: its samples to the list, its lines to the
\* log, and a panic kills the process.
Deliver(r) ==
    /\ slist' = PushFrontAll(slist, r.samples)
    /\ logs' = logs (+) Logged(r.logs)
    /\ dead' = r.panic

ProbeMntr ==
    /\ ~probe.done /\ probe.cmd = mntr
    /\ Deliver(gatherMntrResult(probe.res, ProbeAddr, ProbeTags))
    /\ probe' = [probe EXCEPT !.done = TRUE]
    /\ UNCHANGED <<Instances, Counter, wg, gpc, gi, gh, tasks>>

ProbeRuok ==
    /\ ~probe.done /\ probe.cmd = ruok
    /\ Deliver(gatherRuokResult(probe.res, ProbeAddr, ProbeTags))
    /\ probe' = [probe EXCEPT !.done = TRUE]
    /\ UNCHANGED <<Instances, Counter, wg, gpc, gi, gh, tasks>>

NextProbe == ProbeMntr \/ ProbeRuok

SpecProbe == InitProbe /\ [][NextProbe]_vars

-----------------------------------------------------------------------------
(* The configuration. *)

\* An Instance: its address list, cluster name and static labels. Timeout and
\* the TLS settings only reach the dialer inside ZkConnect, whose outcome the
\* model leaves to the peer.
Instance(addresses, clusterName, labels) ==
    [Addresses |-> addresses, ClusterName |-> clusterName, Labels |-> labels]

InstanceChoices ==
    { Instance(<<"a">>, <<"c">>, (zk_host :> <<"x">>)),
      Instance(<<" ", "a", " ", " ", "b">>, <<"d">>, (<<"e">> :> <<"p">>)),
      Instance(<<>>, <<"c">>, <<>>),
      Instance(<<" ">>, <<"d">>, <<>>) }

\* (i *Instance) ZkHosts()
ZkHosts(ins) == Fields(ins.Addresses)

RECURSIVE HostCount(_)
HostCount(inss) ==
    IF inss = <<>> THEN 0 ELSE Len(ZkHosts(inss[1])) + HostCount(Tail(inss))

\* The configurations: one instance or two (Init() refuses an empty instance
\* list), with MaxHosts hosts at most.
Configs ==
    {c \in UNION {[1..n -> InstanceChoices] : n \in {1, 2}} :
        HostCount(c) <= MaxHosts}

-----------------------------------------------------------------------------
(* What a peer may do to a command. *)

\* What sendZookeeperCmd meets: the reply read, whether conn.Write failed and
\* whether ioutil.ReadAll failed.
Transport(res, werr, rerr) == [res |-> res, werr |-> werr, rerr |-> rerr]

MntrOutcomes ==
    { Transport(Join(<<zk_server_state \o <<" ">> \o leader, <<>>>>), FALSE, FALSE),
      Transport(<<"g", "a", "r", "b", "a", "g", "e">>, FALSE, FALSE),
      Transport(mntr \o <<" ">> \o cmdNotExecutedSffx, FALSE, FALSE),
      Transport(instanceNotServingMessage, FALSE, FALSE),
      Transport(<<>>, TRUE, TRUE) }

RuokOutcomes ==
    { Transport(imok, FALSE, FALSE),
      Transport(ruok \o <<" ">> \o cmdNotExecutedSffx, FALSE, FALSE),
      Transport(<<>>, FALSE, TRUE) }

\* sendZookeeperCmd(conn, cmd) for the outcome o: both errors are logged and
\* dropped, and the bytes read are returned as a string.
sendZookeeperCmd(o) == o.res

\* time.Since(begun).Seconds(): the model keeps no clock.
Elapsed == <<"u", "s", "e">>

-----------------------------------------------------------------------------
(* Gather. *)

Init ==
    /\ Instances \in Configs
    /\ Counter = 0 /\ wg = 0 /\ gpc = "idle" /\ gi = 0 /\ gh = 0
    /\ tasks = <<>> /\ slist = EmptyBag /\ logs = EmptyBag /\ dead = FALSE
    /\ probe = NoProbe

\* tags := map[string]string{"zk_host": zkHost, "zk_cluster": ins.ClusterName},
\* then every label of the instance is written over it.
TaskTags(ins, zkHost) ==
    MapMerge((zk_host :> zkHost) @@ (zk_cluster :> ins.ClusterName), ins.Labels)

\* No command has just been sent. As an outcome it is the peer that closes the
\* stream after zero bytes.
NoTransport == Transport(<<>>, FALSE, FALSE)

\* The goroutine started by go z.gatherOnce(slist, ins, zkHost). met is what
\* the call of sendZookeeperCmd it has just made met at the peer; it is
\* forgotten when the task moves on.
NewTask(ins, zkHost) ==
    [host |-> zkHost, tags |-> TaskTags(ins, zkHost), pc |-> "start",
     conn |-> "nil", ruokConn |-> "nil", peer |-> "none", panicking |-> FALSE,
     met |-> NoTransport]

\* The counter left as it is where z.wg.Add(1) stands.
WgAdd_Missing(w) == w

\* z.wg.Add(1)
WgAdd(w) == w + 1

\* z.wg.Done()
WgDone(w) == w - 1

\* atomic.AddUint64(&z.Counter, 1) and the entry into the loop.
GatherCall ==
    /\ ~dead /\ gpc = "idle"
    /\ Counter' = Counter + 1
    /\ gpc' = "loop" /\ gi' = 1 /\ gh' = 1
    /\ UNCHANGED <<Instances, wg, tasks, slist, logs, dead, probe>>

\* An instance without hosts is logged and ends the loop over the instances
\* (break where the code has continue).
GatherSkip_Break ==
    /\ ~dead /\ gpc = "loop" /\ gi <= Len(Instances)
    /\ Len(ZkHosts(Instances[gi])) = 0
    /\ logs' = logs (+) SetToBag({[kind |-> "noAddresses", cmd |-> <<>>,
                                   at |-> Instances[gi].ClusterName]})
    /\ gi' = Len(Instances) + 1 /\ gh' = 1
    /\ UNCHANGED <<Instances, Counter, wg, gpc, tasks, slist, dead, probe>>

\* An instance without hosts is logged and skipped.
GatherSkip ==
    /\ ~dead /\ gpc = "loop" /\ gi <= Len(Instances)
    /\ Len(ZkHosts(Instances[gi])) = 0
    /\ logs' = logs (+) SetToBag({[kind |-> "noAddresses", cmd |-> <<>>,
                                   at |-> Instances[gi].ClusterName]})
    /\ gi' = gi + 1 /\ gh' = 1
    /\ UNCHANGED <<Instances, Counter, wg, gpc, tasks, slist, dead, probe>>

\* z.wg.Add(1); go z.gatherOnce(slist, ins, zkHost)
GatherSpawn ==
    /\ ~dead /\ gpc = "loop" /\ gi <= Len(Instances)
    /\ LET zkHosts == ZkHosts(Instances[gi])
       IN  /\ gh <= Len(zkHosts)
           /\ wg' = WgAdd(wg)
           /\ tasks' = Append(tasks, NewTask(Instances[gi], zkHosts[gh]))
           /\ IF gh = Len(zkHosts)
              THEN gi' = gi + 1 /\ gh' = 1
              ELSE gi' = gi /\ gh' = gh + 1
    /\ UNCHANGED <<Instances, Counter, gpc, slist, logs, dead, probe>>

\* The loop over the instances ends: Gather reaches z.wg.Wait().
GatherLoopEnd ==
    /\ ~dead /\ gpc = "loop" /\ gi > Len(Instances)
    /\ gpc' = "wait"
    /\ UNCHANGED <<Instances, Counter, wg, gi, gh, tasks, slist, logs, dead, probe>>

\* z.wg.Wait() returns once the counter is zero, and Gather returns.
GatherWait ==
    /\ ~dead /\ gpc = "wait" /\ wg = 0
    /\ gpc' = "returned"
    /\ UNCHANGED <<Instances, Counter, wg, gi, gh, tasks, slist, logs, dead, probe>>

-----------------------------------------------------------------------------
(* gatherOnce: the task of one host. *)

TaskIds == 1..Len(tasks)

Closed(c) == IF c = "open" THEN "closed" ELSE c

\* Task t goes on to pc after pushing samples and logging lines; met is what
\* its command met at the peer.
Proceed(t, pc, samples, logged, met) ==
    /\ slist' = PushFrontAll(slist, samples)
    /\ logs' = logs (+) Logged(logged)
    /\ tasks' = [tasks EXCEPT ![t].pc = pc, ![t].met = met]

\* gatherOnce returns, or panics, after pushing samples and logging lines: the
\* deferred calls run last in, first out: ruokConn.Close() and conn.Close()
\* for the connections opened so far, then the push of zk_scrape_use_seconds.
\* The first deferred call, z.wg.Done(), is the step after.
Return(t, samples, logged, panic, met) ==
    /\ slist' = PushFrontAll(slist,
                    samples \o <<NewSample(zk_scrape_use_seconds, Elapsed,
                                           <<tasks[t].tags>>)>>)
    /\ logs' = logs (+) Logged(logged)
    /\ tasks' = [tasks EXCEPT ![t].pc = "deferDone",
                              ![t].conn = Closed(tasks[t].conn),
                              ![t].ruokConn = Closed(tasks[t].ruokConn),
                              ![t].panicking = panic,
                              ![t].met = met]

ConnectError(cmd, host) == [kind |-> "connect", cmd |-> cmd, at |-> host]

\* What sendZookeeperCmd logs for the outcome o of cmd.
TransportLogs(o, cmd, host) ==
    (IF o.werr THEN <<[kind |-> "write", cmd |-> cmd, at |-> host]>> ELSE <<>>)
    \o (IF o.rerr THEN <<[kind |-> "read", cmd |-> cmd, at |-> host]>> ELSE <<>>)

\* The first connect fails and the task goes on to the second connect instead
\* of returning.
ConnectFails_GoesOn(t) ==
    /\ ~dead /\ tasks[t].pc = "start"
    /\ Proceed(t, "connect2", <<NewSample(zk_up, Zero, <<tasks[t].tags>>)>>,
               <<ConnectError(mntr, tasks[t].host)>>, NoTransport)
    /\ UNCHANGED <<Instances, Counter, wg, gpc, gi, gh, dead, probe>>

\* conn, err := ins.ZkConnect(zkHost) fails: the address does not resolve, the
\* connect is refused or times out, the TLS setup or handshake fails.
ConnectFails(t) ==
    /\ ~dead /\ tasks[t].pc = "start"
    /\ Return(t, <<NewSample(zk_up, Zero, <<tasks[t].tags>>)>>,
              <<ConnectError(mntr, tasks[t].host)>>, FALSE, NoTransport)
    /\ UNCHANGED <<Instances, Counter, wg, gpc, gi, gh, dead, probe>>

\* conn, err := ins.ZkConnect(zkHost) yields a connection, to a peer that will
\* answer the command or stay silent with the stream open.
Connects(t) ==
    /\ ~dead /\ tasks[t].pc = "start"
    /\ \E p \in {"replies", "silent"} :
        tasks' = [tasks EXCEPT ![t].pc = "mntr", ![t].conn = "open", ![t].peer = p]
    /\ UNCHANGED <<Instances, Counter, wg, gpc, gi, gh, slist, logs, dead, probe>>

\* z.gatherMntrResult(conn, slist, ins, tags). sendZookeeperCmd sets no deadline
\* on the connection: ioutil.ReadAll returns when the peer closes the stream
\* or the read fails, and not while the peer stays silent.
Mntr(t) ==
    /\ ~dead /\ tasks[t].pc = "mntr" /\ tasks[t].peer = "replies"
    /\ \E o \in MntrOutcomes :
        LET r == gatherMntrResult(sendZookeeperCmd(o), tasks[t].host, tasks[t].tags)
            logged == TransportLogs(o, mntr, tasks[t].host) \o r.logs
        IN  IF r.panic
            THEN Return(t, r.samples, logged, TRUE, o)
            ELSE Proceed(t, "connect2", r.samples, logged, o)
    /\ UNCHANGED <<Instances, Counter, wg, gpc, gi, gh, dead, probe>>

\* ruokConn, err := ins.ZkConnect(zkHost) fails.
Connect2Fails(t) ==
    /\ ~dead /\ tasks[t].pc = "connect2"
    /\ Return(t, <<NewSample(zk_ruok, Zero, <<tasks[t].tags>>)>>,
              <<ConnectError(ruok, tasks[t].host)>>, FALSE, NoTransport)
    /\ UNCHANGED <<Instances, Counter, wg, gpc, gi, gh, dead, probe>>

\* ruokConn, err := ins.ZkConnect(zkHost) yields the second connection.
Connects2(t) ==
    /\ ~dead /\ tasks[t].pc = "connect2"
    /\ \E p \in {"replies", "silent"} :
        tasks' = [tasks EXCEPT ![t].pc = "ruok", ![t].ruokConn = "open", ![t].peer = p,
                                ![t].met = NoTransport]
    /\ UNCHANGED <<Instances, Counter, wg, gpc, gi, gh, slist, logs, dead, probe>>

\* z.gatherRuokResult(ruokConn, slist, ins, tags), and gatherOnce returns.
Ruok(t) ==
    /\ ~dead /\ tasks[t].pc = "ruok" /\ tasks[t].peer = "replies"
    /\ \E o \in RuokOutcomes :
        LET r == gatherRuokResult(sendZookeeperCmd(o), tasks[t].host, tasks[t].tags)
        IN  Return(t, r.samples, TransportLogs(o, ruok, tasks[t].host) \o r.logs, r.panic, o)
    /\ UNCHANGED <<Instances, Counter, wg, gpc, gi, gh, dead, probe>>

\* defer z.wg.Done(): the last deferred call; after it the goroutine is gone
\* with all it held, or, when it is panicking, the runtime goes on to end the
\* process.
DeferDone(t) ==
    /\ ~dead /\ tasks[t].pc = "deferDone"
    /\ wg' = WgDone(wg)
    /\ tasks' = [tasks EXCEPT ![t].pc = IF tasks[t].panicking THEN "panicked" ELSE "done",
                              ![t].met = NoTransport]
    /\ UNCHANGED <<Instances, Counter, gpc, gi, gh, slist, logs, dead, probe>>

\* An unrecovered panic of any goroutine ends the process.
Crash(t) ==
    /\ ~dead /\ tasks[t].pc = "panicked"
    /\ dead' = TRUE
    /\ UNCHANGED <<Instances, Counter, wg, gpc, gi, gh, tasks, slist, logs, probe>>

\* The steps of task t.
TaskNext(t) ==
    \/ ConnectFails(t) \/ Connects(t) \/ Mntr(t)
    \/ Connect2Fails(t) \/ Connects2(t) \/ Ruok(t)
    \/ DeferDone(t) \/ Crash(t)

Next ==
    \/ GatherCall \/ GatherSkip \/ GatherSpawn \/ GatherLoopEnd \/ GatherWait
    \/ \E t \in TaskIds : ConnectFails(t)
    \/ \E t \in TaskIds : Connects(t)
    \/ \E t \in TaskIds : Mntr(t)
    \/ \E t \in TaskIds : Connect2Fails(t)
    \/ \E t \in TaskIds : Connects2(t)
    \/ \E t \in TaskIds : Ruok(t)
    \/ \E t \in TaskIds : DeferDone(t)
    \/ \E t \in TaskIds : Crash(t)

Spec == Init /\ [][Next]_vars

-----------------------------------------------------------------------------
(* What the claims are stated with. *)

\* A measurement as the sink holds it.
Sample(name, value, tags) == [name |-> name, value |-> value, tags |-> tags]

\* The measurements of the list that satisfy P, as a bag.
Those(P(_)) == [s \in {x \in BagToSet(slist) : P(x)} |-> slist[s]]

\* How many measurements of the list have this name.
CountNamed(name) == BagCardinality(Those(LAMBDA s : s.name = name))

\* How many measurements of the list have this name and value.
CountValued(name, value) ==
    BagCardinality(Those(LAMBDA s : s.name = name /\ s.value = value))

\* The harness has run the stats parser, or the liveness parser.
MntrProbed == probe.done /\ probe.cmd = mntr
RuokProbed == probe.done /\ probe.cmd = ruok

\* The lines of the reply the harness handed over.
ProbeLines == Split(probe.res, "\n")

\* The first line carries the disallowed banner, or is the degraded-mode banner.
ProbeNotExecuted == Contains(ProbeLines[1], cmdNotExecutedSffx)
ProbeNotServing == ProbeLines[1] = instanceNotServingMessage

\* The lines of the probed reply that have at least two fields and this key.
LinesKeyed(key) ==
    {i \in 1..Len(ProbeLines) :
        Len(Fields(ProbeLines[i])) >= 2 /\ Fields(ProbeLines[i])[1] = key}

-----------------------------------------------------------------------------
(* The parsers. *)

\* C5: a non-empty line of fewer than two fields is skipped: the parser does
\* not crash, and the list holds zk_up = 1 and what the other lines produce.
C5_ShortLineSkipped ==
    (MntrProbed /\ ~ProbeNotExecuted /\ ~ProbeNotServing) =>
        /\ ~dead
        /\ slist = PushFrontAll(EmptyBag,
                      <<Sample(zk_up, One, ProbeTags)>> \o
                      ParseLines(SelectSeq(ProbeLines, LAMBDA l : Len(Fields(l)) >= 2),
                                 1, ProbeTags).samples)

\* C6, as claimed: a reply whose first line is the degraded-mode banner yields
\* zk_server_leader = 1 and no other measurement.
C6_NotServingOnlyLeader ==
    (MntrProbed /\ ProbeNotServing) =>
        slist = SetToBag({Sample(zk_server_leader, One, ProbeTags)})

\* C6, amended: a reply whose first line is the degraded-mode banner yields
\* exactly two measurements, zk_up = 1 and zk_server_leader = 1, whatever
\* follows the first line.
C6_NotServingUpAndLeader ==
    (MntrProbed /\ ProbeNotServing) =>
        /\ ~dead
        /\ slist = SetToBag({Sample(zk_up, One, ProbeTags),
                             Sample(zk_server_leader, One, ProbeTags)})

\* C6's case: the banner is followed by a line that would yield a measurement.
C6_Witness ==
    /\ MntrProbed /\ ProbeNotServing
    /\ Len(ProbeLines) = 2 /\ ProbeLines[2] = zk_server_state \o <<" ">> \o leader

\* C7: a reply whose first line contains the disallowed banner yields exactly
\* one measurement, zk_up = 0, whatever follows the first line.
C7_NotExecutedOnlyDown ==
    (MntrProbed /\ ProbeNotExecuted) =>
        /\ ~dead
        /\ slist = SetToBag({Sample(zk_up, Zero, ProbeTags)})

\* C7's case: the banner stands inside the first line, and a line that would
\* yield a measurement follows.
C7_Witness ==
    /\ MntrProbed /\ ProbeNotExecuted
    /\ ProbeLines[1] # cmdNotExecutedSffx
    /\ Len(ProbeLines) = 2 /\ ProbeLines[2] = zk_server_state \o <<" ">> \o leader

\* C8: the line foo{bar="baz",qux="quux"} 5 yields the measurement foo with
\* value 5 and the tags bar = baz and qux = quux beside the global ones.
C8_LabelsOutOfTheName ==
    (MntrProbed /\ probe.res =
        <<"f", "o", "o", "{", "b", "a", "r", "=", "\"", "b", "a", "z", "\"", ",",
          "q", "u", "x", "=", "\"", "q", "u", "u", "x", "\"", "}", " ", "5">>) =>
        BagIn(Sample(<<"f", "o", "o">>, <<"5">>,
                     MapMerge(ProbeTags,
                              (<<"b", "a", "r">> :> <<"b", "a", "z">>) @@
                              (<<"q", "u", "x">> :> <<"q", "u", "u", "x">>))),
              slist)

\* C9: in a reply that is neither banner, every line with key zk_server_state
\* yields one zk_server_leader: 1 for the value leader, 0 for any other.
C9_LeaderPerStateLine ==
    (MntrProbed /\ ~ProbeNotExecuted /\ ~ProbeNotServing) =>
        LET ones == {i \in LinesKeyed(zk_server_state) : Fields(ProbeLines[i])[2] = leader}
        IN  /\ CountValued(zk_server_leader, One) = Cardinality(ones)
            /\ CountValued(zk_server_leader, Zero) =
                   Cardinality(LinesKeyed(zk_server_state) \ ones)

\* C10: the liveness parser yields exactly one measurement, zk_ruok, valued 1
\* iff the reply is "imok"; it logs the whitelist warning iff the reply is not
\* "imok" and contains the disallowed banner, and logs nothing else.
C10_RuokExactlyImok ==
    RuokProbed =>
        /\ ~dead
        /\ slist = SetToBag({Sample(zk_ruok, IF probe.res = imok THEN One ELSE Zero,
                                    ProbeTags)})
        /\ logs = IF probe.res # imok /\ Contains(probe.res, cmdNotExecutedSffx)
                  THEN SetToBag({[kind |-> "commandNotAllowed", cmd |-> ruok,
                                  at |-> ProbeAddr]})
                  ELSE EmptyBag

\* C10's case: a reply that starts with "imok" and is not "imok".
C10_Witness ==
    /\ RuokProbed
    /\ Len(probe.res) > Len(imok) /\ SubSeq(probe.res, 1, Len(imok)) = imok

-----------------------------------------------------------------------------
(* The cycle. *)

\* The cycle has returned, has died, or can take no further step.
CycleOver == gpc = "returned" \/ dead \/ ~ENABLED Next

\* A task has ended: its deferred z.wg.Done() has run.
Ended(t) == tasks[t].pc \in {"done", "panicked"}

\* C1: when a cycle is over the list holds one zk_up per configured host, one
\* per task (tasks tell apart by their tags), and 0 for a task whose first
\* connect failed.
C1_OneStatusPerHost ==
    CycleOver =>
        /\ CountNamed(zk_up) = HostCount(Instances)
        /\ \A t \in TaskIds :
            LET same == {u \in TaskIds : tasks[u].tags = tasks[t].tags}
                failed == {u \in same : tasks[u].pc # "start" /\ tasks[u].conn = "nil"}
            IN  /\ BagCardinality(Those(LAMBDA s : s.name = zk_up
                                                   /\ s.tags = tasks[t].tags))
                       = Cardinality(same)
                /\ CopiesIn(Sample(zk_up, Zero, tasks[t].tags), slist)
                       >= Cardinality(failed)

\* C2: the join counter is never negative and counts the tasks that have not
\* ended; Gather has returned only if every task it spawned has ended; and
\* once Gather has returned nothing more is pushed to the list.
C2_JoinBarrier ==
    /\ [](/\ wg >= 0
          /\ wg = Cardinality({t \in TaskIds : ~Ended(t)})
          /\ gpc = "returned" => \A t \in TaskIds : Ended(t))
    /\ [][gpc = "returned" => slist' = slist]_vars

\* C2's case: Gather has returned after two tasks, one of whose first connect
\* failed while the other ran both probes.
C2_Witness ==
    /\ gpc = "returned" /\ Len(tasks) = 2
    /\ \E t, u \in TaskIds : tasks[t].conn = "nil" /\ tasks[u].ruokConn = "closed"
    /\ CountNamed(zk_scrape_use_seconds) = 2

\* C3: the cycle always goes on until Gather returns: no task waits for its
\* peer without a bound.
C3_NoUnboundedWait == gpc = "returned" \/ dead \/ ENABLED Next

\* C4: whatever happens at one host, the task of every other host can go on:
\* a task that has not ended and is not waiting for its own peer has a step.
C4_FailureIsolated ==
    \A t \in TaskIds :
        (~Ended(t) /\ ~(tasks[t].pc \in {"mntr", "ruok"} /\ tasks[t].peer = "silent"))
            => ENABLED TaskNext(t)

-----------------------------------------------------------------------------
(* The version line. *)

\* s is digits.digits.digits
IsTriplet(s) ==
    LET parts == Split(s, ".")
    IN  Len(parts) = 3 /\ \A i \in 1..3 : parts[i] # <<>> /\ AllIn(parts[i], Digits)

\* The longest dotted triplet v starts with, and v when it starts with none.
TripletPrefix(v) ==
    LET ns == {n \in 1..Len(v) : IsTriplet(SubSeq(v, 1, n))}
    IN  IF ns = {} THEN v ELSE SubSeq(v, 1, Max(ns))

\* The loop of the stats parser reaches line i of the probed reply: the reply
\* is no banner and no line before i ends the loop.
Reached(i) ==
    /\ ~ProbeNotExecuted /\ ~ProbeNotServing
    /\ \A j \in 1..(i - 1) : ProbeLines[j] = <<>> \/ Len(Fields(ProbeLines[j])) >= 2

\* The zk_version lines the loop reaches.
VersionLines == {i \in LinesKeyed(zk_version) : Reached(i)}

\* C11: every zk_version line the stats parser reaches yields one zk_version
\* measurement valued 1 whose version tag is the dotted triplet the value
\* starts with, or the value unchanged when it starts with none; nothing else
\* yields a zk_version measurement.
C11_VersionTag ==
    MntrProbed =>
        /\ CountNamed(zk_version) = Cardinality(VersionLines)
        /\ \A i \in VersionLines :
            LET tag(j) == TripletPrefix(Fields(ProbeLines[j])[2])
            IN  CopiesIn(Sample(zk_version, One, MapSet(ProbeTags, versionKey, tag(i))),
                         slist)
                  = Cardinality({j \in VersionLines : tag(j) = tag(i)})

\* C11's case: a reply with the version 3.5.2-beta and a version that starts
\* with no triplet, and the list holds the tag 3.5.2.
C11_Witness ==
    /\ MntrProbed /\ Cardinality(VersionLines) = 2
    /\ \E i, j \in VersionLines :
        /\ Fields(ProbeLines[i])[2] = <<"3", ".", "5", ".", "2", "-", "b", "e", "t", "a">>
        /\ TripletPrefix(Fields(ProbeLines[j])[2]) = Fields(ProbeLines[j])[2]
    /\ BagIn(Sample(zk_version, One, MapSet(ProbeTags, versionKey, <<"3", ".", "5", ".", "2">>)),
             slist)

-----------------------------------------------------------------------------
(* Instances without addresses. *)

\* How many lines of this kind the log holds.
CountLogged(kind) ==
    BagCardinality([l \in {x \in BagToSet(logs) : x.kind = kind} |-> logs[l]])

\* How many instances the loop of Gather has dealt with.
InstancesDone ==
    CASE gpc = "idle" -> 0
      [] gpc = "loop" -> gi - 1
      [] OTHER -> Len(Instances)

-----------------------------------------------------------------------------
(* Transport errors. *)

\* The command task t has just sent met a write or a read failure.
TransportFailed(t) == tasks[t].met.werr \/ tasks[t].met.rerr

\* The tasks with the tags of task t: their measurements cannot be told apart.
SameTags(t) == {u \in TaskIds : tasks[u].tags = tasks[t].tags}

\* C13: a task whose stats command met a write or read failure has emitted
\* zk_up = 0 and no zk_up = 1: among the tasks with its tags, the list holds a
\* zk_up = 0 for each that has just met such a failure, and a zk_up = 1 for
\* no more than the others that have run the stats probe.
C13_TransportErrorIsDown ==
    \A t \in TaskIds :
        LET failed == {u \in SameTags(t) : tasks[u].pc = "connect2" /\ TransportFailed(u)}
            probed == {u \in SameTags(t) : tasks[u].conn # "nil"
                                           /\ tasks[u].pc \notin {"start", "mntr"}}
        IN  /\ CopiesIn(Sample(zk_up, Zero, tasks[t].tags), slist) >= Cardinality(failed)
            /\ CopiesIn(Sample(zk_up, One, tasks[t].tags), slist)
                   <= Cardinality(probed \ failed)

\* The peer closes the stream after zero bytes: a reply, and an empty one.
EmptyReply == Transport(<<>>, FALSE, FALSE)

\* C14: what sendZookeeperCmd returns for a command that met a write or read
\* failure differs from what it returns for the empty reply.
C14_FailureNotEmptyReply ==
    \A t \in TaskIds :
        TransportFailed(t) =>
            sendZookeeperCmd(tasks[t].met) # sendZookeeperCmd(EmptyReply)

-----------------------------------------------------------------------------
(* The steps of a task. *)

\* The measurements of the list that carry exactly these tags and this name.
CountTagged(name, tags) ==
    BagCardinality(Those(LAMBDA s : s.name = name /\ s.tags = tags))

\* Task t is the only task with its tags: the measurements with its tags are
\* the ones it emitted.
Alone(t) == SameTags(t) = {t}

\* The first connect of task t has failed; its first connect has succeeded
\* and its second has failed.
FirstConnectFailed(t) == tasks[t].pc # "start" /\ tasks[t].conn = "nil"
SecondConnectFailed(t) ==
    /\ tasks[t].pc \in {"deferDone", "done"} /\ ~tasks[t].panicking
    /\ tasks[t].conn # "nil" /\ tasks[t].ruokConn = "nil"

\* C15: a task closes its first connection before it opens the second: once
\* the second connection exists the first is closed, so no task holds two
\* open connections.
C15_FirstClosedBeforeSecond ==
    \A t \in TaskIds : tasks[t].ruokConn # "nil" => tasks[t].conn = "closed"

\* C16: a task whose first connect failed has returned having emitted
\* zk_up = 0 and the elapsed time and nothing else, with no second connection
\* and no command sent; a task whose second connect failed has emitted
\* zk_ruok = 0 and no zk_ruok = 1.
C16_ConnectFailures ==
    \A t \in TaskIds :
        /\ FirstConnectFailed(t) =>
              /\ tasks[t].pc \in {"deferDone", "done"} /\ ~tasks[t].panicking
              /\ tasks[t].ruokConn = "nil" /\ tasks[t].peer = "none"
              /\ tasks[t].met = NoTransport
              /\ Alone(t) =>
                    Those(LAMBDA s : s.tags = tasks[t].tags)
                      = SetToBag({Sample(zk_up, Zero, tasks[t].tags),
                                  Sample(zk_scrape_use_seconds, Elapsed, tasks[t].tags)})
        /\ (SecondConnectFailed(t) /\ Alone(t)) =>
              /\ CopiesIn(Sample(zk_ruok, Zero, tasks[t].tags), slist) = 1
              /\ CountTagged(zk_ruok, tasks[t].tags) = 1

\* C16's case: of two tasks that have ended, the first connect of one failed
\* and the second connect of the other.
C16_Witness ==
    \E t, u \in TaskIds :
        /\ Alone(t) /\ Alone(u) /\ tasks[t].pc = "done" /\ tasks[u].pc = "done"
        /\ FirstConnectFailed(t) /\ SecondConnectFailed(u)

\* C17: a task emits the elapsed time once, and before its liveness probe
\* begins: among the tasks with the same tags, the list holds one
\* zk_scrape_use_seconds for each that has its second connection or is past
\* it, and none for a task that has not run its stats probe yet.
C17_ElapsedBeforeLiveness ==
    \A t \in TaskIds :
        LET past == {u \in SameTags(t) : tasks[u].pc \in {"ruok", "deferDone", "done", "panicked"}}
            due  == {u \in SameTags(t) : tasks[u].pc = "connect2"}
            n    == CountTagged(zk_scrape_use_seconds, tasks[t].tags)
        IN  Cardinality(past) <= n /\ n <= Cardinality(past \cup due)

\* The instance and the host of every task, in the order Gather spawns them.
RECURSIVE Spawned(_)
Spawned(inss) ==
    IF inss = <<>> THEN <<>>
    ELSE [h \in 1..Len(ZkHosts(inss[1])) |-> [ins |-> inss[1], host |-> ZkHosts(inss[1])[h]]]
         \o Spawned(Tail(inss))

\* C18: every measurement of a task carries zk_host = the task's host,
\* zk_cluster = the cluster name of its instance, and every label of the
\* instance.
C18_IdentityTags ==
    \A t \in TaskIds : \A s \in BagToSet(slist) :
        s.tags = tasks[t].tags =>
            LET of == Spawned(Instances)[t]
            IN  /\ s.tags[zk_host] = of.host
                /\ s.tags[zk_cluster] = of.ins.ClusterName
                /\ \A k \in DOMAIN of.ins.Labels : s.tags[k] = of.ins.Labels[k]

\* C20: a task that has ended has emitted one zk_ruok if its first connect
\* succeeded and none if it failed, whatever the stats reply was.
C20_RuokIffConnected ==
    \A t \in TaskIds :
        (\A u \in SameTags(t) : Ended(u)) =>
            CountTagged(zk_ruok, tasks[t].tags)
              = Cardinality({u \in SameTags(t) : tasks[u].conn # "nil"})

-----------------------------------------------------------------------------
(* Values that are no numbers. *)

\* A line of the default case whose value is neither an integer nor a float.
NonNumeric(l) ==
    /\ Len(Fields(l)) >= 2
    /\ Fields(l)[1] \notin {zk_server_state, zk_version, zk_peer_state}
    /\ ~isDigit(Fields(l)[2])

\* The lines of that kind the loop reaches.
NonNumericLines == {i \in 1..Len(ProbeLines) : NonNumeric(ProbeLines[i]) /\ Reached(i)}

\* C19: a line whose value is no number yields a warning and nothing else,
\* and the parser goes on: the list holds what the reply without such lines
\* yields, the parser ends as it ends on that reply (it returns, unless a
\* line of fewer than two fields stops it), and the log holds one warning per
\* such line reached, naming its key and value.
C19_NonNumericSkipped ==
    (MntrProbed /\ ~ProbeNotExecuted /\ ~ProbeNotServing) =>
        LET kept == SelectSeq(ProbeLines, LAMBDA l : ~NonNumeric(l))
            r    == ParseLines(kept, 1, ProbeTags)
        IN  /\ slist = PushFrontAll(EmptyBag, <<Sample(zk_up, One, ProbeTags)>> \o r.samples)
            /\ dead = r.panic
            /\ (\A i \in 1..Len(ProbeLines) :
                    ProbeLines[i] = <<>> \/ Len(Fields(ProbeLines[i])) >= 2) => ~dead
            /\ CountLogged("notDigit") = Cardinality(NonNumericLines)
            /\ \A i \in NonNumericLines :
                  BagIn([kind |-> "notDigit", cmd |-> Fields(ProbeLines[i])[1],
                         at |-> Fields(ProbeLines[i])[2]], logs)

\* C19's case: a line whose value is no number, then a line that yields a
\* measurement: the parser has returned with that measurement in the list.
C19_Witness ==
    /\ MntrProbed /\ ~dead
    /\ Len(ProbeLines) = 2 /\ NonNumeric(ProbeLines[1])
    /\ ProbeLines[2] = zk_server_state \o <<" ">> \o leader
    /\ BagIn(Sample(zk_server_leader, One, ProbeTags), slist)
    /\ CountLogged("notDigit") = 1

====
